---- MODULE Spec2Model ----
(***************************************************************************)
(* Model of image_to_pdf.py: the conversion worker ImageToPDFConverter.run *)
(* and the handlers of ImageToPDFApp that configure, launch and finish it. *)
(***************************************************************************)
EXTENDS Integers, Sequences, FiniteSets, TLC

(***************************************************************************)
(* Bounds of the model.                                                    *)
(***************************************************************************)
MaxLen == 3
MaxPerPage == 2

(***************************************************************************)
(* Double-precision arithmetic of  int(k / n * 100)  (lines 76 and 109).   *)
(* A positive double is  1.f * 2^exp : frac holds the 52 fraction bits f   *)
(* as four 13-bit limbs, most significant first.  Every operation rounds   *)
(* to nearest, ties to even, as IEEE 754 binary64 does.                    *)
(***************************************************************************)
Limb == 8192
LimbBits == 13

RECURSIVE Shift(_, _)
\* least s >= 0 with a * 2^s >= b
Shift(a, b) == IF a >= b THEN 0 ELSE 1 + Shift(2 * a, b)

RECURSIVE Pow2(_)
Pow2(e) == IF e = 0 THEN 1 ELSE 2 * Pow2(e - 1)

RECURSIVE BitLen(_)
BitLen(v) == IF v = 0 THEN 0 ELSE 1 + BitLen(v \div 2)

\* frac + up (up is 0 or 1); a carry out of the top limb makes the
\* significand 2.0, that is 1.0 with the exponent one higher
RoundUp(frac, exp, up) ==
    LET s4 == frac[4] + up
        s3 == frac[3] + s4 \div Limb
        s2 == frac[2] + s3 \div Limb
        s1 == frac[1] + s2 \div Limb
    IN  [frac |-> <<s1 % Limb, s2 % Limb, s3 % Limb, s4 % Limb>>,
         exp  |-> exp + s1 \div Limb]

\* fl(a / b) for integers 1 <= a, 1 <= b < 2^17
FloatDiv(a, b) ==
    LET s  == Shift(a, b)
        r0 == a * Pow2(s) - b
        d1 == (r0 * Limb) \div b
        r1 == (r0 * Limb) % b
        d2 == (r1 * Limb) \div b
        r2 == (r1 * Limb) % b
        d3 == (r2 * Limb) \div b
        r3 == (r2 * Limb) % b
        d4 == (r3 * Limb) \div b
        r4 == (r3 * Limb) % b
        up == IF 2 * r4 > b \/ (2 * r4 = b /\ d4 % 2 = 1) THEN 1 ELSE 0
    IN  RoundUp(<<d1, d2, d3, d4>>, 0 - s, up)

\* fl(x * c) for a double x and an integer 1 <= c < 2^13
FloatMul(x, c) ==
    LET t4  == x.frac[4] * c
        t3  == x.frac[3] * c + t4 \div Limb
        t2  == x.frac[2] * c + t3 \div Limb
        t1  == x.frac[1] * c + t2 \div Limb
        top == c + t1 \div Limb
        p1  == t1 % Limb
        p2  == t2 % Limb
        p3  == t3 % Limb
        p4  == t4 % Limb
        \* the exact product is top.p1 p2 p3 p4; keep 53 bits of it
        g   == BitLen(top) - 1
        G   == Pow2(g)
        H   == Limb \div G
        n1  == (top % G) * H + p1 \div G
        n2  == (p1 % G) * H + p2 \div G
        n3  == (p2 % G) * H + p3 \div G
        n4  == (p3 % G) * H + p4 \div G
        lost == 2 * (p4 % G)
        up  == IF lost > G \/ (lost = G /\ n4 % 2 = 1) THEN 1 ELSE 0
    IN  RoundUp(<<n1, n2, n3, n4>>, x.exp + g, up)

\* int(x) for a double 0 < x < 2^14: truncation toward zero
FloatToInt(x) ==
    IF x.exp < 0 THEN 0
    ELSE (Limb + x.frac[1]) \div Pow2(LimbBits - x.exp)

Percent_round(done, total) == (200 * done + total) \div (2 * total)

Percent_swapped(done, total) == (100 * total) \div done

\* int(done / total * 100), lines 76 and 109
Percent(done, total) == FloatToInt(FloatMul(FloatDiv(done, total), 100))

(***************************************************************************)
(* Paths, the extension filter and the plan (lines 48-54, 88-89).          *)
(***************************************************************************)
\* A path is the pair Path(p).stem, Path(p).suffix of pathlib.  Listing is
\* the folder the user picks from, in the order the choosers return it.
Listing ==
    << [stem |-> "a", suffix |-> ".png"],
       [stem |-> "n", suffix |-> ".txt"],
       [stem |-> "a", suffix |-> ".JPG"],
       [stem |-> "b", suffix |-> ".gif"] >>

Paths == { Listing[i] : i \in DOMAIN Listing }

\* the folders the user can choose as output folder
Folders == {"cwd", "out"}

\* str.lower() on the suffixes of Paths
Lower(suffix) == IF suffix = ".JPG" THEN ".jpg" ELSE suffix

supported_formats == {".jpg", ".jpeg", ".png", ".bmp", ".tiff", ".tif", ".gif"}

Supported(p) == Lower(p.suffix) \in supported_formats

RECURSIVE FilterValid(_)
\* the loop of lines 51-54
FilterValid(files) ==
    IF files = <<>> THEN <<>>
    ELSE (IF Supported(Head(files)) THEN <<Head(files)>> ELSE <<>>)
         \o FilterValid(Tail(files))

Min(x, y) == IF x <= y THEN x ELSE y

\* range(0, len(valid), per) of line 89, as the number of its elements
NumGroups(valid, per) == (Len(valid) + per - 1) \div per

Slice_short(valid, i, per) == SubSeq(valid, i + 1, Min(i + per, Len(valid)) - 1)

\* valid[i:i + per], a Python slice: it stops at the end of the list
Slice(valid, i, per) == SubSeq(valid, i + 1, Min(i + per, Len(valid)))

\* the list comprehension of lines 88-89
Groups(valid, per) ==
    [g \in 1..NumGroups(valid, per) |-> Slice(valid, (g - 1) * per, per)]

RECURSIVE Pick(_, _)
\* the entries of Listing at the positions in chosen, from position i on
Pick(chosen, i) ==
    IF i > Len(Listing) THEN <<>>
    ELSE (IF i \in chosen THEN <<Listing[i]>> ELSE <<>>) \o Pick(chosen, i + 1)

\* the lists add_files receives: any selection of 1..MaxLen files
FileLists ==
    { Pick(chosen, 1) : chosen \in
        { c \in SUBSET DOMAIN Listing : Cardinality(c) \in 1..MaxLen } }

\* Percent for every plan the model can build, computed once
PercentTable ==
    [total \in 1..Len(Listing) |-> [done \in 1..total |-> Percent(done, total)]]

(***************************************************************************)
(* Output file names (lines 69-70, 85, 105).                               *)
(***************************************************************************)
GroupName_zero(k) == [kind |-> "images_group", stem |-> "", idx |-> k - 1]

StemName(img)  == [kind |-> "stem", stem |-> img.stem, idx |-> 0]
MergedName     == [kind |-> "merged_images", stem |-> "", idx |-> 0]
GroupName(k)   == [kind |-> "images_group", stem |-> "", idx |-> k]

(***************************************************************************)
(* Signals of ImageToPDFConverter (lines 33-35).                           *)
(***************************************************************************)
Progress(v)     == [sig |-> "progress_updated", ok |-> TRUE, val |-> v, text |-> ""]
Message(text, v) == [sig |-> "status_updated", ok |-> TRUE, val |-> v, text |-> text]
Result(ok, text) == [sig |-> "conversion_finished", ok |-> ok, val |-> 0, text |-> text]

VARIABLES
    image_files,          \* ImageToPDFApp.image_files
    output_path,          \* ImageToPDFApp.output_path
    images_per_page_spin, \* value of the spin box
    convert_btn,          \* convert_btn.isEnabled()
    dialog,               \* the modal message box on screen, "none" if none
    converter_thread,     \* ImageToPDFApp.converter_thread and its run()
    pending,              \* conversion_finished signals queued for the UI
    existing,             \* the folders that exist on disk
    events,               \* the signals the current worker has emitted
    written,              \* the files the current worker created or overwrote
    processed             \* the groups the current worker has attempted

vars == <<image_files, output_path, images_per_page_spin, convert_btn, dialog,
          converter_thread, pending, existing, events, written, processed>>

app_vars == <<image_files, output_path, images_per_page_spin, convert_btn, dialog>>
run_vars == <<converter_thread, pending, events, written, processed>>

\* self.converter_thread = None, line 241
NoThread ==
    [pc |-> "none", image_files |-> <<>>, output_path |-> "cwd",
     images_per_page |-> 1, valid_images |-> <<>>, groups |-> <<>>, i |-> 0]

\* ImageToPDFApp.__init__ and init_ui, lines 238-242, 326-328, 399
Init ==
    /\ image_files = <<>>
    /\ output_path = "cwd"
    /\ images_per_page_spin = 1
    /\ convert_btn = TRUE
    /\ dialog = "none"
    /\ converter_thread = NoThread
    /\ pending = <<>>
    /\ existing = Folders
    /\ events = <<>>
    /\ written = {}
    /\ processed = <<>>

(***************************************************************************)
(* Handlers of ImageToPDFApp.  A message box is modal: while one is on     *)
(* screen the window takes no input.                                       *)
(***************************************************************************)
\* add_files, lines 402-427, called by select_files and by a drop with a
\* non-empty list
add_files(files) ==
    /\ dialog = "none"
    /\ image_files' = files
    /\ UNCHANGED <<output_path, images_per_page_spin, convert_btn, dialog,
                   existing>>
    /\ UNCHANGED run_vars

\* clear_files, lines 467-475
clear_files ==
    /\ dialog = "none"
    /\ image_files' = <<>>
    /\ UNCHANGED <<output_path, images_per_page_spin, convert_btn, dialog,
                   existing>>
    /\ UNCHANGED run_vars

\* select_output_folder, lines 477-482: the chooser returns an existing folder
select_output_folder(folder) ==
    /\ dialog = "none"
    /\ folder \in existing
    /\ output_path' = folder
    /\ UNCHANGED <<image_files, images_per_page_spin, convert_btn, dialog,
                   existing>>
    /\ UNCHANGED run_vars

\* the user edits the spin box, whose range is set in lines 326-327
set_images_per_page(v) ==
    /\ dialog = "none"
    /\ images_per_page_spin' = v
    /\ UNCHANGED <<image_files, output_path, convert_btn, dialog, existing>>
    /\ UNCHANGED run_vars

ButtonWhileRunning_enabled == TRUE

\* convert_btn.setEnabled(False), line 495
ButtonWhileRunning == FALSE

\* ImageToPDFConverter.__init__, lines 37-41, and start(), line 514
NewThread(files, path, per) ==
    [pc |-> "start", image_files |-> files, output_path |-> path,
     images_per_page |-> per, valid_images |-> <<>>, groups |-> <<>>, i |-> 0]

\* start_conversion, lines 484-514, on a click of the enabled button
start_conversion ==
    /\ dialog = "none"
    /\ convert_btn
    /\ IF image_files = <<>>
       THEN /\ dialog' = "warning_no_files"
            /\ UNCHANGED <<convert_btn>>
            /\ UNCHANGED run_vars
       ELSE IF output_path \notin existing
       THEN /\ dialog' = "warning_no_folder"
            /\ UNCHANGED <<convert_btn>>
            /\ UNCHANGED run_vars
       ELSE /\ convert_btn' = ButtonWhileRunning
            /\ converter_thread' =
                   NewThread(image_files, output_path, images_per_page_spin)
            /\ events' = <<>>
            /\ written' = {}
            /\ processed' = <<>>
            /\ UNCHANGED <<dialog, pending>>
    /\ UNCHANGED <<image_files, output_path, images_per_page_spin, existing>>

\* conversion_finished, lines 516-526, run by the UI thread for a queued signal
conversion_finished ==
    /\ pending # <<>>
    /\ convert_btn' = TRUE
    /\ dialog' = IF Head(pending).ok THEN "information" ELSE "critical"
    /\ pending' = Tail(pending)
    /\ UNCHANGED <<image_files, output_path, images_per_page_spin, existing,
                   converter_thread, events, written, processed>>

\* the user closes the message box
dismiss ==
    /\ dialog # "none"
    /\ dialog' = "none"
    /\ UNCHANGED <<image_files, output_path, images_per_page_spin, convert_btn,
                   existing>>
    /\ UNCHANGED run_vars

\* the environment removes the chosen output folder (read by line 490 and by
\* every open() of the worker); the working directory stays
delete_folder ==
    /\ "out" \in existing
    /\ existing' = existing \ {"out"}
    /\ UNCHANGED app_vars
    /\ UNCHANGED run_vars

(***************************************************************************)
(* ImageToPDFConverter.run, lines 43-121, one step per loop iteration.     *)
(***************************************************************************)
\* open(file, "wb") creates the file or truncates it; f.write fills it
Put(files, name, pages) ==
    {f \in files : f.name # name} \cup {[name |-> name, pages |-> pages]}

\* with open(out, "wb") as f: f.write(img2pdf.convert(images))
\* (lines 73-74, 94-95, 106-107): open comes first and fails when the
\* folder is gone; then convert or write may raise, leaving the file empty
Outcomes(path) ==
    IF path \in existing THEN {"ok", "convert_error"} ELSE {"open_error"}

WriteFile(files, name, pages, outcome) ==
    IF outcome = "open_error" THEN files
    ELSE IF outcome = "convert_error" THEN Put(files, name, <<>>)
    ELSE Put(files, name, pages)

IsResult(e) == e.sig = "conversion_finished"

\* the effect of one step of run: the new thread state, the signals it
\* emits in order, the files and the group it attempted
Step(thread, out, files, attempted) ==
    /\ converter_thread' = thread
    /\ events' = events \o out
    /\ pending' = pending \o SelectSeq(out, IsResult)
    /\ written' = files
    /\ processed' = processed \o attempted
    /\ UNCHANGED app_vars
    /\ UNCHANGED existing

WorkerFiles_shared(t) == image_files

\* self.image_files as run reads it in line 52: the list the worker was
\* constructed with (add_files and clear_files rebind the field of the
\* window, lines 406 and 469, and never change that list in place)
WorkerFiles(t) == t.image_files

NoValid_never(valid) == FALSE

\* if not valid_images, line 56
NoValid(valid) == valid = <<>>

\* lines 45-64 and 85-91: filter, then choose the branch
RunBegin ==
    LET t     == converter_thread
        valid == FilterValid(WorkerFiles(t))
        per   == t.images_per_page
        grps  == IF per = 1 THEN <<>> ELSE Groups(valid, per)
        pc    == IF per = 1 THEN "each"
                 ELSE IF Len(grps) = 1 THEN "merge" ELSE "groups"
    IN  /\ t.pc = "start"
        /\ IF NoValid(valid)
           THEN Step([t EXCEPT !.pc = "finished"],
                     <<Message("start", 0), Result(FALSE, "no_valid_images")>>,
                     written, <<>>)
           ELSE Step([t EXCEPT !.pc = pc, !.valid_images = valid,
                               !.groups = grps, !.i = 0],
                     <<Message("start", 0), Message("found", Len(valid))>>,
                     written, <<>>)

GroupFailed_abort(t, k) ==
    [thread |-> [t EXCEPT !.pc = "finished"], out |-> <<Result(FALSE, "failed")>>]

\* the except branch of a loop body followed by continue, lines 80-82, 113-115
GroupFailed(t, k) ==
    [thread |-> [t EXCEPT !.i = k], out |-> <<Message("failed", k)>>]

\* one iteration of the loop of lines 66-82
RunEach ==
    LET t     == converter_thread
        k     == t.i + 1
        img   == t.valid_images[k]
        total == Len(t.valid_images)
        name  == StemName(img)
    IN  /\ t.pc = "each"
        /\ t.i < Len(t.valid_images)
        /\ \E outcome \in Outcomes(t.output_path) :
             LET files == WriteFile(written, name, <<img>>, outcome)
             IN  IF outcome = "ok"
                 THEN Step([t EXCEPT !.i = k],
                           <<Progress(PercentTable[total][k]), Message("converted", k)>>,
                           files, <<<<img>>>>)
                 ELSE Step(GroupFailed(t, k).thread, GroupFailed(t, k).out,
                           files, <<<<img>>>>)

AfterMergeFailure_continue == "end"

\* return after the failed merge, line 100
AfterMergeFailure == "finished"

\* the single merged PDF, lines 91-100
RunMerge ==
    LET t == converter_thread
    IN  /\ t.pc = "merge"
        /\ \E outcome \in Outcomes(t.output_path) :
             LET files == WriteFile(written, MergedName, t.valid_images, outcome)
             IN  IF outcome = "ok"
                 THEN Step([t EXCEPT !.pc = "end"],
                           <<Progress(100), Message("merged", 0)>>,
                           files, <<t.valid_images>>)
                 ELSE Step([t EXCEPT !.pc = AfterMergeFailure],
                           <<Result(FALSE, "merge_failed")>>,
                           files, <<t.valid_images>>)

\* one iteration of the loop of lines 103-115
RunGroups ==
    LET t     == converter_thread
        k     == t.i + 1
        group == t.groups[k]
        name  == GroupName(k)
    IN  /\ t.pc = "groups"
        /\ t.i < Len(t.groups)
        /\ \E outcome \in Outcomes(t.output_path) :
             LET files == WriteFile(written, name, group, outcome)
             IN  IF outcome = "ok"
                 THEN Step([t EXCEPT !.i = k],
                           <<Progress(PercentTable[Len(t.groups)][k]),
                             Message("generated", k)>>,
                           files, <<group>>)
                 ELSE Step(GroupFailed(t, k).thread, GroupFailed(t, k).out,
                           files, <<group>>)

\* line 117, reached when a loop ends or the merge succeeded
RunFinish ==
    LET t == converter_thread
    IN  /\ \/ t.pc = "each" /\ t.i = Len(t.valid_images)
           \/ t.pc = "groups" /\ t.i = Len(t.groups)
           \/ t.pc = "end"
        /\ Step([t EXCEPT !.pc = "finished"], <<Result(TRUE, "done")>>,
                written, <<>>)

run == RunBegin \/ RunEach \/ RunMerge \/ RunGroups \/ RunFinish

Next ==
    \/ \E files \in FileLists : add_files(files)
    \/ clear_files
    \/ \E folder \in Folders : select_output_folder(folder)
    \/ \E v \in 1..MaxPerPage : set_images_per_page(v)
    \/ start_conversion
    \/ conversion_finished
    \/ dismiss
    \/ delete_folder
    \/ RunBegin
    \/ RunEach
    \/ RunMerge
    \/ RunGroups
    \/ RunFinish

Spec == Init /\ [][Next]_vars

\* the thread scheduler runs the worker and the Qt event loop delivers the
\* queued signal; the user is under no obligation
FairSpec == Spec /\ WF_vars(run) /\ WF_vars(conversion_finished)

(***************************************************************************)
(* Claims.                                                                 *)
(***************************************************************************)
\* a worker has been launched and its Result has not been handled yet
Running ==
    \/ converter_thread.pc \notin {"none", "finished"}
    \/ pending # <<>>

\* a step that creates and starts a worker
Launch ==
    /\ converter_thread'.pc = "start"
    /\ converter_thread' # converter_thread

Finished == converter_thread.pc = "finished"

RECURSIVE Flatten(_)
Flatten(seqs) == IF seqs = <<>> THEN <<>> ELSE Head(seqs) \o Flatten(Tail(seqs))

IsPrefix(s, t) == Len(s) <= Len(t) /\ s = SubSeq(t, 1, Len(s))

IsProgress(e) == e.sig = "progress_updated"
IsFailure(e)  == e.sig = "status_updated" /\ e.text = "failed"

LastEvent == events[Len(events)]

\* the worker iterates a loop: one PDF per image, or several group PDFs
LoopMode ==
    \/ converter_thread.pc = "each"
    \/ converter_thread.pc = "groups"

\* the number of groups in the plan of the current worker
PlanSize ==
    LET n   == Len(FilterValid(converter_thread.image_files))
        per == converter_thread.images_per_page
    IN  (n + per - 1) \div per

\* C1: the groups the worker attempts are, in order, consecutive pieces of
\* the filtered list; every group but the latest has exactly groupSize
\* images, every group has between 1 and groupSize, and when the run has
\* ended their concatenation is the whole filtered list.
ThmC1 ==
    LET t    == converter_thread
        list == FilterValid(t.image_files)
        per  == t.images_per_page
        flat == Flatten(processed)
    IN  /\ IsPrefix(flat, list)
        /\ \A g \in 1..Len(processed) :
             /\ Len(processed[g]) \in 1..per
             /\ g < Len(processed) => Len(processed[g]) = per
        /\ Finished => flat = list

\* C1 witness: a run over three images in groups of two has ended; its last
\* group holds the one image left over
WitC1 ==
    /\ Finished
    /\ converter_thread.images_per_page = 2
    /\ Len(processed) = 2
    /\ Len(processed[1]) = 2
    /\ Len(processed[2]) = 1

\* C2: a run emits at most one Result, the Result is the last signal
\* emitted, the worker has ended when it is emitted, and every ended worker
\* has emitted one.
ThmC2 ==
    LET results == SelectSeq(events, IsResult)
    IN  /\ Len(results) <= 1
        /\ Len(results) = 1 => IsResult(LastEvent) /\ Finished
        /\ Finished => Len(results) = 1

\* C2 witness: a run has ended with the failure of the single merged PDF
WitC2 ==
    /\ Finished
    /\ events # <<>>
    /\ LastEvent = Result(FALSE, "merge_failed")

\* the step attempts group k of a loop and does not write its pages
FailedAttempt ==
    /\ LoopMode
    /\ processed' # processed
    /\ ~ \E e \in { events'[j] : j \in Len(events) + 1 .. Len(events') } :
           IsProgress(e)

\* C3: in the per-image loop and in the loop over several groups, a failed
\* group emits exactly one failure Message naming that group and the worker
\* moves on to the next group; the run ends with Result success = true
\* after attempting every group, however many of them failed.
ThmC3 ==
    /\ [][FailedAttempt =>
            /\ events' = events \o <<Message("failed", converter_thread.i + 1)>>
            /\ converter_thread' =
                 [converter_thread EXCEPT !.i = converter_thread.i + 1]]_vars
    /\ [](Finished /\ PlanSize > 0
            /\ (converter_thread.images_per_page = 1 \/ PlanSize > 1)
          => /\ LastEvent = Result(TRUE, "done")
             /\ Len(processed) = PlanSize
             /\ Len(SelectSeq(events, IsFailure))
                  + Len(SelectSeq(events, IsProgress)) = PlanSize)

\* C3 witness: a run of two or more groups has ended Completed although
\* every group failed
WitC3 ==
    /\ Finished
    /\ Len(processed) >= 2
    /\ Len(SelectSeq(events, IsFailure)) = Len(processed)
    /\ LastEvent = Result(TRUE, "done")

\* C4 (as claimed): when the only group of a groupSize > 1 run fails, the
\* run reports Failed and has neither created nor modified
\* merged_images.pdf.
ClaimC4 ==
    (/\ Finished
     /\ converter_thread.images_per_page > 1
     /\ PlanSize = 1
     /\ LastEvent.ok = FALSE)
    => /\ LastEvent = Result(FALSE, "merge_failed")
       /\ \A f \in written : f.name.kind # "merged_images"

\* the positions of events holding the Progress emitted for a group: the
\* Message right after it names the group (0 for the single merged PDF)
ProgressAt == { j \in 1..Len(events) - 1 : IsProgress(events[j]) }

\* completed / total * 100 rounded to the nearest integer
Rounded(completed, total) == (200 * completed + total) \div (2 * total)

\* the number of groups converted successfully among the first j events
Successes(j) == Cardinality({ h \in 1..j : IsProgress(events[h]) })

\* C5 (as claimed): the Progress of a successful group is
\* round(completedGroups / totalGroups * 100), completedGroups read either
\* as the groups finished so far or as the groups converted so far.
ClaimC5 ==
    \A j \in ProgressAt :
        LET k == IF events[j + 1].val = 0 THEN 1 ELSE events[j + 1].val
        IN  \/ events[j].val = Rounded(k, PlanSize)
            \/ events[j].val = Rounded(Successes(j), PlanSize)

\* C5 (amended): the Progress of a successful group is the truncation of
\* k / totalGroups * 100, k the 1-based position of the group in the plan:
\* the integer part of the exact quotient 100k / totalGroups, or one less
\* when that quotient is an integer that the floating-point product falls
\* short of; the last group and the single merged PDF give exactly 100.
ThmC5 ==
    \A j \in ProgressAt :
        LET k == IF events[j + 1].val = 0 THEN 1 ELSE events[j + 1].val
            n == PlanSize
            v == events[j].val
        IN  /\ k \in 1..n
            /\ IF (100 * k) % n = 0
               THEN v \in {(100 * k) \div n - 1, (100 * k) \div n}
               ELSE v = (100 * k) \div n
            /\ k = n => v = 100
            /\ events[j + 1].val = 0 => n = 1

\* C5 witness: the first of three groups failed and the second has just
\* been converted, with Progress 66
WitC5 ==
    /\ Len(events) = 5
    /\ IsFailure(events[3])
    /\ events[4] = Progress(66)
    /\ events[5].val = 2

\* C6: the Progress values of a run lie in 0..100 and never decrease.
ThmC6 ==
    \A j \in 1..Len(events) : IsProgress(events[j]) =>
        /\ events[j].val \in 0..100
        /\ \A h \in 1..j : IsProgress(events[h]) => events[h].val <= events[j].val

\* C6 witness: a run has emitted Progress 33 and, after a failed group,
\* Progress 100
WitC6 ==
    /\ Len(events) >= 6
    /\ events[3] = Progress(33)
    /\ IsFailure(events[5])
    /\ events[6] = Progress(100)

\* a click on the start button that ends in a warning box
Refused == dialog = "none" /\ dialog' \in {"warning_no_files", "warning_no_folder"}

\* C7 (as claimed): a missing output folder is surfaced as a Failed Result.
ClaimC7 ==
    [][(dialog = "none" /\ dialog' = "warning_no_folder")
         => /\ Len(pending') = Len(pending) + 1
            /\ ~pending'[Len(pending')].ok]_vars

\* C7 (amended): a run whose list holds no supported image ends with a
\* Failed Result preceded by the start Message only: no group attempted, no
\* Progress, no file.  An empty list or a missing output folder is refused
\* by start_conversion with a warning box: no worker is launched, no signal
\* is emitted and the button stays enabled.
ThmC7 ==
    /\ [](Finished /\ FilterValid(converter_thread.image_files) = <<>>
          => /\ events = <<Message("start", 0), Result(FALSE, "no_valid_images")>>
             /\ processed = <<>>
             /\ written = {})
    /\ [][Launch => image_files # <<>> /\ output_path \in existing]_vars
    /\ [][Refused => /\ image_files = <<>> \/ output_path \notin existing
                     /\ UNCHANGED run_vars
                     /\ convert_btn']_vars

\* C7 witness: a run over unsupported files has ended Failed, and a later
\* click on start was refused because the output folder is gone
WitC7 ==
    /\ Finished
    /\ Len(events) = 2
    /\ LastEvent = Result(FALSE, "no_valid_images")
    /\ dialog = "warning_no_folder"

\* C9 (as claimed): a groupSize 1 run over N distinct images that converts
\* every image leaves N files, one <stem>.pdf per image.
ClaimC9 ==
    LET t == converter_thread
        N == Len(FilterValid(t.image_files))
    IN  (/\ Finished
         /\ t.images_per_page = 1
         /\ Len(SelectSeq(events, IsProgress)) = N)
        => /\ Cardinality(written) = N
           /\ \A i \in 1..N :
                \E f \in written : /\ f.name.kind = "stem"
                                   /\ f.name.stem = t.valid_images[i].stem

\* the name the rule gives to group k of the current run
RuleName(k, group) ==
    IF converter_thread.images_per_page = 1
    THEN [kind |-> "stem", stem |-> group[1].stem, idx |-> 0]
    ELSE IF PlanSize = 1
    THEN [kind |-> "merged_images", stem |-> "", idx |-> 0]
    ELSE [kind |-> "images_group", stem |-> "", idx |-> k]

\* C10: a step of the worker touches a file only when it attempts a group,
\* and then only the file the rule names for that group; when the group is
\* converted that file holds the pages of the group.
ThmC10 ==
    /\ [][processed' # processed /\ ~Launch =>
            LET k     == Len(processed')
                group == processed'[k]
                name  == RuleName(k, group)
            IN  /\ \A f \in written' \ written : f.name = name
                /\ \A f \in written \ written' : f.name = name
                /\ (\E j \in Len(events) + 1 .. Len(events') :
                       IsProgress(events'[j]))
                   => [name |-> name, pages |-> group] \in written']_vars
    /\ [][processed' = processed /\ ~Launch => written' = written]_vars

\* C10 witness: the second group of a multi-group run is on disk as
\* images_group_2.pdf
WitC10 ==
    \E f \in written : /\ f.name.kind = "images_group"
                       /\ f.name.idx = 2
                       /\ f.pages # <<>>

\* C8: while a worker is running or its Result is still queued the start
\* button is disabled, no step launches a second worker, and a disabled
\* start button is eventually enabled again.
ThmC8 ==
    /\ [](Running => ~convert_btn)
    /\ [][Launch => ~Running]_vars
    /\ (~convert_btn ~> convert_btn)

\* C8 witness: a worker is in the middle of its loop with the button disabled
WitC8 ==
    /\ converter_thread.pc = "groups"
    /\ converter_thread.i = 1
    /\ ~convert_btn

\* the list, output folder and group size a worker runs with
Config(t) == <<t.image_files, t.output_path, t.images_per_page>>

\* a step of the window that changes the list, the output folder or the
\* group-size setting
Edit ==
    \/ image_files' # image_files
    \/ output_path' # output_path
    \/ images_per_page_spin' # images_per_page_spin

\* C11: a worker is launched with the list, output folder and group size
\* the window holds at that moment; no later step changes them, an edit of
\* the window while the worker runs changes nothing of the worker, and the
\* worker filters and processes exactly the list it was launched with.
ThmC11 ==
    /\ [][Launch => Config(converter_thread') =
                      <<image_files, output_path, images_per_page_spin>>]_vars
    /\ [][~Launch => Config(converter_thread') = Config(converter_thread)]_vars
    /\ [][Edit => UNCHANGED run_vars]_vars
    /\ [](converter_thread.pc \notin {"none", "start"} =>
            /\ converter_thread.valid_images
                 = FilterValid(converter_thread.image_files)
            /\ IsPrefix(Flatten(processed), converter_thread.valid_images)
            /\ Finished => Flatten(processed) = converter_thread.valid_images)

\* C11 witness: a worker has gone through its whole list although the list,
\* the output folder and the group size of the window were all changed
\* while it was running
WitC11 ==
    /\ Finished
    /\ pending # <<>>
    /\ Len(processed) >= 2
    /\ image_files # converter_thread.image_files
    /\ output_path # converter_thread.output_path
    /\ images_per_page_spin # converter_thread.images_per_page
====
